---- MODULE Spec2Model ----
\* The request state-transition engine of the process maker:
\* RequestService (app/domain/service/process_maker/request_service.py) over the
\* Request entities (app/domain/model/process_maker/request.py) and
\* UserService.find_by_id (app/domain/usecase/user.py).
\*
\* The persisted tables are the state, with the call each caller has in
\* progress. Every handler of RequestService is one action, except
\* user_commit_action, which is two: everything it does on its own in-memory
\* Request (lines 166-177) and the request_repo.update that persists it
\* (line 178), so that overlapping calls on one request interleave the way two
\* service workers do. A caller takes the response of its call (Return) before
\* it makes the next one.
EXTENDS Integers, Sequences, FiniteSets, TLC

VARIABLES request, request_data, request_note, request_stakeholder,
          request_action, sess

vars == <<request, request_data, request_note, request_stakeholder,
          request_action, sess>>

tables == <<request, request_data, request_note, request_stakeholder,
            request_action>>

\* ---------------------------------------------------------------- bounds
\* Requests that create_request may persist.
MaxRequests == 1
\* Rows of the request_action table (committed transitions, all requests).
MaxHist == 2
\* Rows a table of attachments may hold before a stand-alone add_request_*
\* call is no longer issued.
MaxAttach == 2

\* Python's None: an unset foreign key or attribute.
None == 0

\* ------------------------------------------------- the process graph (static)
\* Users, groups, processes, states, routes and actions are definitions owned
\* by other services; the engine only reads them.
User == {1, 2}
UserIds == {1, 2, 3}          \* 3 resolves to no user

\* <<group, user>> pairs of GroupService.is_user_in_group.
Membership == {<<1, 1>>, <<2, 2>>}

is_user_in_group(group_id, user_id) == <<group_id, user_id>> \in Membership

\* Action.target: the groups that may commit the action. Action 3 targets no group.
Action ==
    [a \in {1, 2, 3} |->
        [id |-> a,
         target |-> CASE a = 1 -> <<1>>
                      [] a = 2 -> <<1, 2>>
                      [] a = 3 -> <<>>]]
ActionIds == {1, 2, 3, 4}     \* 4 resolves to no action

\* Route: the state it leaves, the state it leads to, the actions that gate it.
\* Routes 1 and 3 both leave state 1 gated by action 1, towards different
\* states; route 4 leaves state 2 gated by action 1 alone, which targets group 1.
Route ==
    [r \in {1, 2, 3, 4} |->
        [id |-> r,
         current_state_id |-> IF r = 4 THEN 2 ELSE 1,
         next_state_id    |-> CASE r = 1 -> 2 [] r = 2 -> 2 [] r = 3 -> 3
                                [] r = 4 -> 1,
         action |-> CASE r = 1 -> <<1, 3>>
                      [] r = 2 -> <<2>>
                      [] r = 3 -> <<1>>
                      [] r = 4 -> <<1>>]]

\* State: its process and its outgoing routes, in the order State.route lists
\* them. State 3 is a dead end; state 4 is the only state of process 2.
State ==
    [s \in {1, 2, 3, 4} |->
        [id |-> s,
         process_id |-> IF s = 4 THEN 2 ELSE 1,
         route |-> CASE s = 1 -> <<1, 2, 3>>
                     [] s = 2 -> <<4>>
                     [] s = 3 -> <<>>
                     [] s = 4 -> <<>>]]

\* Process: its designated start state; process 2 has none.
Process ==
    [p \in {1, 2} |->
        [id |-> p, start |-> IF p = 1 THEN 1 ELSE None]]
ProcessIds == {1, 2, 3}       \* 3 resolves to no process

\* ------------------------------------------------------------------ callers
\* What a caller holds: nothing (idle), a user_commit_action that has not
\* persisted yet (loaded, with its in-memory Request: current_state_id and
\* request_action), or the response of the call it made (returned: the
\* handler, its arguments, "ok" or the error raised, for a commit the
\* current state and the number of RequestActions it had read, for a query
\* the list it returned).
Idle ==
    [pc |-> "idle", op |-> "", outcome |-> "", request_id |-> None,
     user_id |-> None, action_id |-> None, process_id |-> None,
     origin |-> None, seen |-> None,
     current_state_id |-> None, request_action |-> <<>>,
     specific_user_id |-> None, result |-> <<>>]

Response(op, outcome, request_id, user_id, action_id, process_id) ==
    [Idle EXCEPT !.pc = "returned", !.op = op, !.outcome = outcome,
                 !.request_id = request_id, !.user_id = user_id,
                 !.action_id = action_id, !.process_id = process_id]

\* ---------------------------------------------------------- lookup services
\* Each lookup returns the entity, or raises: error names what was raised.
process_find_one(process_id) ==
    IF process_id \in DOMAIN Process
    THEN [error |-> "", id |-> process_id]
    ELSE [error |-> "NotFound", id |-> None]

find_start_point(process_id) ==
    IF Process[process_id].start # None
    THEN [error |-> "", id |-> Process[process_id].start]
    ELSE [error |-> "NotFound", id |-> None]

action_find_one(action_id) ==
    IF action_id \in DOMAIN Action
    THEN [error |-> "", id |-> action_id]
    ELSE [error |-> "NotFound", id |-> None]

\* find_by_id without its raise: whatever the repository found is returned.
find_by_id_no_raise(user_id) == [error |-> "", id |-> user_id]

\* UserService.find_by_id: the user, or record_not_found. validate_id accepts
\* every id of UserIds (positive integers).
find_by_id(user_id) ==
    IF user_id \in User
    THEN [error |-> "", id |-> user_id]
    ELSE [error |-> "NotFound", id |-> None]

\* RequestRepository.find_one: the persisted row, or None (here: no row).
request_repo_find_one(request_id) ==
    IF request_id \in DOMAIN request THEN <<request[request_id]>> ELSE <<>>

\* find_one_request without its check of the row: None goes on to get_route.
find_one_request_unchecked(request_id) ==
    IF request_repo_find_one(request_id) = <<>>
    THEN [error |-> "AttributeError", id |-> None]
    ELSE [error |-> "", id |-> request_id]

\* RequestService.find_one_request
find_one_request(request_id) ==
    IF request_repo_find_one(request_id) = <<>>
    THEN [error |-> "NotFound", id |-> None]
    ELSE [error |-> "", id |-> request_id]

\* ------------------------------------------------------------------ entities
DataType == [json |-> "json", text |-> "text"]
NoteType == [user_note |-> "user_note", system_note |-> "system_note"]
StakeholderType == [user |-> "user", group |-> "group"]

\* json.dumps on the payloads the model draws: an empty text (dumped as a pair
\* of quotes, written '' here) and an empty dict.
json_dumps(value) ==
    CASE value = "" -> "''"
      [] value = "dict()" -> "{}"
      [] OTHER -> value

\* Request(title, entity_id, entity_model) with process_id and user_id set, as
\* request_repo.create stores it: no current state yet, status by its default.
NewRequest(id, title, entity_id, entity_model, process_id, user_id) ==
    [id |-> id, title |-> title, user_id |-> user_id, process_id |-> process_id,
     current_state_id |-> None, status |-> "active",
     entity_model |-> entity_model, entity_id |-> entity_id]

\* validate() of the attached entities: required fields are well-formed.
validate_request_data(d) ==
    /\ d.name # ""
    /\ d.value # ""
    /\ d.data_type \in {DataType.json, DataType.text}

validate_request_note(n) ==
    /\ n.note # ""
    /\ n.note_type \in {NoteType.user_note, NoteType.system_note}

validate_request_stakeholder(s) ==
    /\ s.stakeholder_id > 0
    /\ s.stakeholder_type \in {StakeholderType.user, StakeholderType.group}

validate_request_action(ra) ==
    /\ ra.user_id # None
    /\ ra.route_id # None
    /\ ra.action_id # None
    /\ ra.request_id # None

\* ------------------------------------------------------ attachment operations
\* Each builds the entity, validates it and creates its row: the table after
\* the call, and the error raised if any.
\* add_request_data archiving the request's earlier entries of the same name.
AddRequestDataArchiving(tbl, request_id, value, name, data_type) ==
    LET request_data_ == [request_id |-> request_id,
                          data_type |-> data_type,
                          status |-> "active",
                          name |-> name,
                          value |-> IF data_type = DataType.json
                                    THEN json_dumps(value) ELSE value]
        archived == [i \in DOMAIN tbl |->
                        IF tbl[i].request_id = request_id /\ tbl[i].name = name
                        THEN [tbl[i] EXCEPT !.status = "archived"]
                        ELSE tbl[i]]
    IN  IF validate_request_data(request_data_)
        THEN [error |-> "", tbl |-> Append(archived, request_data_)]
        ELSE [error |-> "InvalidInput", tbl |-> tbl]

AddRequestData(tbl, request_id, value, name, data_type) ==
    LET request_data_ == [request_id |-> request_id,
                          data_type |-> data_type,
                          status |-> "active",
                          name |-> name,
                          value |-> IF data_type = DataType.json
                                    THEN json_dumps(value) ELSE value]
    IN  IF validate_request_data(request_data_)
        THEN [error |-> "", tbl |-> Append(tbl, request_data_)]
        ELSE [error |-> "InvalidInput", tbl |-> tbl]

AddRequestNote(tbl, request_id, note, user_id, note_type) ==
    LET request_note_ == [user_id |-> user_id, request_id |-> request_id,
                          note_type |-> note_type, status |-> "active",
                          note |-> note]
    IN  IF validate_request_note(request_note_)
        THEN [error |-> "", tbl |-> Append(tbl, request_note_)]
        ELSE [error |-> "InvalidInput", tbl |-> tbl]

\* add_request_stakeholder creating its row before it validates it.
AddRequestStakeholderCreateFirst(tbl, request_id, stakeholder_id, stakeholder_type) ==
    LET request_stakeholder_ == [request_id |-> request_id,
                                 stakeholder_id |-> stakeholder_id,
                                 stakeholder_type |-> stakeholder_type]
    IN  IF validate_request_stakeholder(request_stakeholder_)
        THEN [error |-> "", tbl |-> Append(tbl, request_stakeholder_)]
        ELSE [error |-> "InvalidInput", tbl |-> Append(tbl, request_stakeholder_)]

AddRequestStakeholder(tbl, request_id, stakeholder_id, stakeholder_type) ==
    LET request_stakeholder_ == [request_id |-> request_id,
                                 stakeholder_id |-> stakeholder_id,
                                 stakeholder_type |-> stakeholder_type]
    IN  IF validate_request_stakeholder(request_stakeholder_)
        THEN [error |-> "", tbl |-> Append(tbl, request_stakeholder_)]
        ELSE [error |-> "InvalidInput", tbl |-> tbl]

\* The loop of create_request leaving after its first stakeholder.
AddStakeholdersFirstOnly(tbl, request_id, stakeholders) ==
    IF stakeholders = <<>>
    THEN [error |-> "", tbl |-> tbl]
    ELSE AddRequestStakeholder(tbl, request_id, Head(stakeholders),
                               StakeholderType.user)

\* The loop of create_request over the stakeholder ids: it stops at the first
\* one that raises, the earlier ones stay created.
RECURSIVE AddStakeholders(_, _, _)
AddStakeholders(tbl, request_id, stakeholders) ==
    IF stakeholders = <<>>
    THEN [error |-> "", tbl |-> tbl]
    ELSE LET one == AddRequestStakeholder(tbl, request_id, Head(stakeholders),
                                          StakeholderType.user)
         IN  IF one.error # ""
             THEN one
             ELSE AddStakeholders(one.tbl, request_id, Tail(stakeholders))

\* Inputs of the attachment calls: one well-formed entity of each kind, and
\* one malformed in each of its fields.
DataInputs ==
    {<<"dict()", "content", DataType.json>>, <<"", "content", DataType.text>>,
     <<"dict()", "", DataType.json>>, <<"dict()", "content", "xml">>}
Notes == {"", "note"}
NoteInputs ==
    {<<"note", NoteType.system_note>>, <<"", NoteType.system_note>>,
     <<"note", "draft">>}
StakeholderInputs ==
    {<<1, StakeholderType.group>>, <<0, StakeholderType.user>>, <<1, "role">>}

add_request_data(c, rq, value, name, data_type) ==
    LET r == AddRequestData(request_data, rq, value, name, data_type)
    IN  /\ sess[c].pc = "idle"
        /\ request_data' = r.tbl
        /\ sess' = [sess EXCEPT ![c] =
               Response("add_request_data", IF r.error = "" THEN "ok" ELSE r.error,
                        rq, None, None, None)]
        /\ UNCHANGED <<request, request_note, request_stakeholder, request_action>>

\* add_request_note that also marks the request as noted.
add_request_note_marking(c, rq, note, user_id, note_type) ==
    LET r == AddRequestNote(request_note, rq, note, user_id, note_type)
    IN  /\ sess[c].pc = "idle"
        /\ request_note' = r.tbl
        /\ request' = [request EXCEPT ![rq].status = "noted"]
        /\ sess' = [sess EXCEPT ![c] =
               Response("add_request_note", IF r.error = "" THEN "ok" ELSE r.error,
                        rq, user_id, None, None)]
        /\ UNCHANGED <<request_data, request_stakeholder, request_action>>

add_request_note(c, rq, note, user_id, note_type) ==
    LET r == AddRequestNote(request_note, rq, note, user_id, note_type)
    IN  /\ sess[c].pc = "idle"
        /\ request_note' = r.tbl
        /\ sess' = [sess EXCEPT ![c] =
               Response("add_request_note", IF r.error = "" THEN "ok" ELSE r.error,
                        rq, user_id, None, None)]
        /\ UNCHANGED <<request, request_data, request_stakeholder, request_action>>

add_request_stakeholder(c, rq, stakeholder_id, stakeholder_type) ==
    LET r == AddRequestStakeholder(request_stakeholder, rq, stakeholder_id,
                                   stakeholder_type)
    IN  /\ sess[c].pc = "idle"
        /\ request_stakeholder' = r.tbl
        /\ sess' = [sess EXCEPT ![c] =
               Response("add_request_stakeholder",
                        IF r.error = "" THEN "ok" ELSE r.error,
                        rq, None, None, None)]
        /\ UNCHANGED <<request, request_data, request_note, request_action>>

\* ------------------------------------------------------------ create_request
\* Inputs of create_request.
Creators == {2, 3}            \* 3 resolves to no user
EntityModels == {"", "deal"}
StakeholderLists == {<<>>, <<1, 1>>, <<2, 0>>}

create_request(c, process_id, user_id, title, content, note, stakeholders, entity_model, entity_id) ==
    LET process == process_find_one(process_id)
        user == find_by_id(user_id)
        state == find_start_point(process.id)
        Raise(error, id) ==
            sess' = [sess EXCEPT ![c] =
                Response("create_request", error, id, user_id, None, process_id)]
    IN
    /\ sess[c].pc = "idle"
    /\ IF process.error # "" THEN Raise(process.error, None) /\ UNCHANGED tables
       ELSE IF user.error # "" THEN Raise(user.error, None) /\ UNCHANGED tables
       ELSE IF state.error # "" THEN Raise(state.error, None) /\ UNCHANGED tables
       ELSE
         LET id == Len(request) + 1
             created == Append(request,
                               NewRequest(id, title, entity_id, entity_model,
                                          process.id, user.id))
             data == AddRequestData(request_data, id, content, entity_model,
                                    DataType.json)
             note_ == AddRequestNote(request_note, id, note, user_id,
                                     NoteType.user_note)
             holders == AddStakeholders(request_stakeholder, id, stakeholders)
         IN
         /\ Len(request) < MaxRequests
         /\ UNCHANGED request_action
         /\ IF data.error # ""
            THEN /\ request' = created
                 /\ UNCHANGED <<request_data, request_note, request_stakeholder>>
                 /\ Raise(data.error, id)
            ELSE IF note_.error # ""
            THEN /\ request' = created
                 /\ request_data' = data.tbl
                 /\ UNCHANGED <<request_note, request_stakeholder>>
                 /\ Raise(note_.error, id)
            ELSE IF holders.error # ""
            THEN /\ request' = created
                 /\ request_data' = data.tbl
                 /\ request_note' = note_.tbl
                 /\ request_stakeholder' = holders.tbl
                 /\ Raise(holders.error, id)
            ELSE /\ request' = [created EXCEPT ![id].current_state_id = state.id]
                 /\ request_data' = data.tbl
                 /\ request_note' = note_.tbl
                 /\ request_stakeholder' = holders.tbl
                 /\ Raise("ok", id)

\* -------------------------------------------------------- the commit engine
\* The relationship loading the RequestActions of every request.
HistoryOfAll(tbl, request_id) == tbl

\* The rows of the request_action table of one request, in id order.
HistoryOf(tbl, request_id) ==
    SelectSeq(tbl, LAMBDA ra : ra.request_id = request_id)

\* A RequestAction loaded from its row: route_to_next_state is a plain class
\* attribute, not a column, and is None on every loaded entity.
Loaded(row) ==
    [id |-> row.id, request_id |-> row.request_id, action_id |-> row.action_id,
     user_id |-> row.user_id, route_id |-> row.route_id, status |-> row.status,
     route_to_next_state |-> None]

LoadHistory(request_id) ==
    LET h == HistoryOf(request_action, request_id)
    IN  [i \in DOMAIN h |-> Loaded(h[i])]

\* Request.get_route: the routes of the current state, in their order.
get_route(current_state_id) == State[current_state_id].route

\* should_user_commit_action that asks only whether the action has a target.
should_user_commit_action_any_user(user_id, action) == action.target # <<>>

\* should_user_commit_action: the user is in one of the action's target groups.
should_user_commit_action(user_id, action) ==
    \E i \in DOMAIN action.target : is_user_in_group(action.target[i], user_id)

\* The double loop of create_request_action without its test of the action id.
RECURSIVE VisitAnyAction(_, _)
VisitAnyAction(routes, action_id) ==
    IF routes = <<>> THEN <<>>
    ELSE LET route == Route[Head(routes)]
         IN  [i \in DOMAIN route.action |-> <<route.id, route.action[i]>>]
             \o VisitAnyAction(Tail(routes), action_id)

\* The <<route, action>> pairs the double loop of create_request_action visits
\* whose action is the committed one, in the order it visits them.
RECURSIVE Visit(_, _)
Visit(routes, action_id) ==
    IF routes = <<>> THEN <<>>
    ELSE LET route == Route[Head(routes)]
             hits == SelectSeq(route.action, LAMBDA act : act = action_id)
         IN  [i \in DOMAIN hits |-> <<route.id, hits[i]>>]
             \o Visit(Tail(routes), action_id)

\* The loop keeping the first route it assigned.
TurningRouteFirst(visited) ==
    IF visited = <<>> THEN None ELSE visited[1][1]

\* The route the loop leaves in turning_route: the last one it assigned.
TurningRoute(visited) ==
    IF visited = <<>> THEN None ELSE visited[Len(visited)][1]

\* RequestAction(user_id) as create_request_action fills it; status is left
\* to the column default.
NewRequestAction(request_id, user_id, turning_route, action_id) ==
    [id |-> None, request_id |-> request_id, action_id |-> action_id,
     user_id |-> user_id, route_id |-> turning_route, status |-> "active",
     route_to_next_state |-> turning_route]

\* create_request_action without its test of allowed_actions.
create_request_action_unauthorized(request_id, current_state_id, history, user_id, action_id) ==
    IF current_state_id = None
    THEN [error |-> "AttributeError", request_action |-> history]
    ELSE
      LET turning_route ==
              TurningRoute(Visit(get_route(current_state_id), action_id))
          request_action_ ==
              NewRequestAction(request_id, user_id, turning_route, action_id)
      IN  IF ~validate_request_action(request_action_)
          THEN [error |-> "InvalidInput", request_action |-> history]
          ELSE [error |-> "", request_action |-> Append(history, request_action_)]

\* create_request_action on the in-memory request: the error raised, or the
\* request's RequestAction list with the new entry appended.
create_request_action(request_id, current_state_id, history, user_id, action_id) ==
    IF current_state_id = None
    THEN [error |-> "AttributeError", request_action |-> history]
    ELSE
      LET visited == Visit(get_route(current_state_id), action_id)
          turning_route == TurningRoute(visited)
          actions == [i \in DOMAIN visited |-> Action[visited[i][2]]]
          allowed_actions ==
              SelectSeq(actions,
                        LAMBDA action : should_user_commit_action(user_id, action))
          request_action_ ==
              NewRequestAction(request_id, user_id, turning_route, action_id)
      IN  IF allowed_actions = <<>>
          THEN [error |-> "Forbidden", request_action |-> history]
          ELSE IF ~validate_request_action(request_action_)
          THEN [error |-> "InvalidInput", request_action |-> history]
          ELSE [error |-> "", request_action |-> Append(history, request_action_)]

\* user_commit_action without the loop that closes the history.
MarkDoneSkipped(history) == history

\* for request_action in request.request_action: request_action.status = 'done'
MarkDone(history) ==
    [i \in DOMAIN history |-> [history[i] EXCEPT !.status = "done"]]

\* The entity the name request_action is bound to once that loop is over: the
\* last one of the list.
LoopVariable(history) == history[Len(history)]

\* request_action.route_to_next_state.next_state_id
NextStateId(request_action_) ==
    Route[request_action_.route_to_next_state].next_state_id

\* user_commit_action, lines 166-177: resolve, build the RequestAction, close
\* the history and move the state, all on the caller's own Request object.
user_commit_action_load(c, request_id, user_id, action_id) ==
    LET rq == find_one_request(request_id)
        user == find_by_id(user_id)
        action == action_find_one(action_id)
        Raise(error) ==
            /\ sess' = [sess EXCEPT ![c] =
                   Response("user_commit_action", error, request_id, user_id,
                            action_id, None)]
            /\ UNCHANGED tables
    IN
    /\ sess[c].pc = "idle"
    /\ IF rq.error # "" THEN Raise(rq.error)
       ELSE IF user.error # "" THEN Raise(user.error)
       ELSE IF action.error # "" THEN Raise(action.error)
       ELSE
         LET origin == request[request_id].current_state_id
             history == LoadHistory(request_id)
             made == create_request_action(request_id, origin, history,
                                           user.id, action.id)
             closed == MarkDone(made.request_action)
             last == LoopVariable(closed)
         IN  IF made.error # "" THEN Raise(made.error)
             ELSE IF last.route_to_next_state = None THEN Raise("AttributeError")
             ELSE
               /\ Len(request_action)
                    + Cardinality({d \in DOMAIN sess : sess[d].pc = "loaded"})
                  < MaxHist
               /\ sess' = [sess EXCEPT ![c] =
                     [Idle EXCEPT !.pc = "loaded",
                                  !.op = "user_commit_action",
                                  !.request_id = request_id,
                                  !.user_id = user.id,
                                  !.action_id = action.id,
                                  !.origin = origin,
                                  !.seen = Len(history),
                                  !.current_state_id = NextStateId(last),
                                  !.request_action = closed]]
               /\ UNCHANGED tables

\* request_repo.update on the request_action rows: the loaded entities write
\* their status back to their rows, the new ones are inserted.
RECURSIVE Flush(_, _)
Flush(tbl, entities) ==
    IF entities = <<>> THEN tbl
    ELSE LET e == Head(entities)
             row(id) == [id |-> id, request_id |-> e.request_id,
                         action_id |-> e.action_id, user_id |-> e.user_id,
                         route_id |-> e.route_id, status |-> e.status]
         IN  Flush(IF e.id = None
                   THEN Append(tbl, row(Len(tbl) + 1))
                   ELSE [tbl EXCEPT ![e.id] = row(e.id)],
                   Tail(entities))

\* request_repo.update on the request row: the current state the caller set.
Update(tbl, request_id, current_state_id) ==
    [tbl EXCEPT ![request_id].current_state_id = current_state_id]

\* user_commit_action, line 178: request_repo.update(request), and the return.
user_commit_action_update(c) ==
    /\ sess[c].pc = "loaded"
    /\ request' = Update(request, sess[c].request_id, sess[c].current_state_id)
    /\ request_action' = Flush(request_action, sess[c].request_action)
    /\ sess' = [sess EXCEPT ![c] =
           [Response("user_commit_action", "ok", sess[c].request_id,
                     sess[c].user_id, sess[c].action_id, None)
               EXCEPT !.origin = sess[c].origin, !.seen = sess[c].seen]]
    /\ UNCHANGED <<request_data, request_note, request_stakeholder>>

\* ------------------------------------------------------------------ queries
\* The loop of find_request_allowed_action leaving after the first route.
ExtendFirstRoute(routes) ==
    IF routes = <<>> THEN <<>> ELSE Route[Head(routes)].action

\* for route in routes: actions.extend(route.action)
RECURSIVE Extend(_)
Extend(routes) ==
    IF routes = <<>> THEN <<>>
    ELSE Route[Head(routes)].action \o Extend(Tail(routes))

\* actions[i] = action_service.find_one(actions[i].id), for every i: the
\* first id that resolves to nothing raises.
Refetch(actions) ==
    IF \E i \in DOMAIN actions : action_find_one(actions[i]).error # ""
    THEN [error |-> "NotFound", actions |-> <<>>]
    ELSE [error |-> "", actions |-> [i \in DOMAIN actions |->
                                        action_find_one(actions[i]).id]]

\* find_request_allowed_action keeping only what its viewer may commit.
AllowedActionOfViewer(request_id, user_id) ==
    LET rq == find_one_request(request_id)
    IN  IF rq.error # "" THEN [error |-> rq.error, actions |-> <<>>]
        ELSE IF request[request_id].current_state_id = None
        THEN [error |-> "AttributeError", actions |-> <<>>]
        ELSE [error |-> "",
              actions |->
                  SelectSeq(Extend(get_route(request[request_id].current_state_id)),
                            LAMBDA a : should_user_commit_action(user_id, Action[a]))]

\* The body of find_request_allowed_action: the ids of the actions returned,
\* or the error raised. user_id is handed to find_one_request, which does not
\* read it.
AllowedAction(request_id, user_id) ==
    LET rq == find_one_request(request_id)
    IN  IF rq.error # "" THEN [error |-> rq.error, actions |-> <<>>]
        ELSE IF request[request_id].current_state_id = None
        THEN [error |-> "AttributeError", actions |-> <<>>]
        ELSE Refetch(Extend(get_route(request[request_id].current_state_id)))

\* The filter of find_request_allowed_action_for_specific_user, asking about
\* the viewer in place of the specific user.
KeepAllowedForViewer(actions, user_id, specific_user_id) ==
    SelectSeq(actions, LAMBDA a : should_user_commit_action(user_id, Action[a]))

\* [action for action in actions if should_user_commit_action(specific_user.id, action)]
KeepAllowed(actions, user_id, specific_user_id) ==
    SelectSeq(actions,
              LAMBDA a : should_user_commit_action(specific_user_id, Action[a]))

\* find_request_actions returning the newest RequestAction first.
RequestActionsNewestFirst(request_id) ==
    LET h == LoadHistory(request_id)
    IN  [i \in DOMAIN h |-> h[Len(h) + 1 - i]]

\* [request_action for request_action in request.request_action]
RequestActions(request_id) == LoadHistory(request_id)

Answer(c, op, outcome, request_id, user_id, specific_user_id, result) ==
    sess' = [sess EXCEPT ![c] =
        [Response(op, outcome, request_id, user_id, None, None)
            EXCEPT !.specific_user_id = specific_user_id, !.result = result]]

find_request_allowed_action(c, request_id, user_id) ==
    LET found == AllowedAction(request_id, user_id)
    IN  /\ sess[c].pc = "idle"
        /\ Answer(c, "find_request_allowed_action",
                  IF found.error = "" THEN "ok" ELSE found.error,
                  request_id, user_id, None, found.actions)
        /\ UNCHANGED tables

find_request_allowed_action_for_specific_user(c, request_id, user_id, specific_user_id) ==
    LET found == AllowedAction(request_id, user_id)
        specific_user == find_by_id(specific_user_id)
        op == "find_request_allowed_action_for_specific_user"
    IN  /\ sess[c].pc = "idle"
        /\ IF found.error # ""
           THEN Answer(c, op, found.error, request_id, user_id,
                       specific_user_id, <<>>)
           ELSE IF specific_user.error # ""
           THEN Answer(c, op, specific_user.error, request_id, user_id,
                       specific_user_id, <<>>)
           ELSE Answer(c, op, "ok", request_id, user_id, specific_user_id,
                       KeepAllowed(found.actions, user_id, specific_user.id))
        /\ UNCHANGED tables

find_request_actions(c, request_id, user_id) ==
    LET rq == find_one_request(request_id)
    IN  /\ sess[c].pc = "idle"
        /\ IF rq.error # ""
           THEN Answer(c, "find_request_actions", rq.error, request_id,
                       user_id, None, <<>>)
           ELSE Answer(c, "find_request_actions", "ok", request_id, user_id,
                       None, RequestActions(request_id))
        /\ UNCHANGED tables

\* The caller takes the response.
Return(c) ==
    /\ sess[c].pc = "returned"
    /\ sess' = [sess EXCEPT ![c] = Idle]
    /\ UNCHANGED tables

\* ------------------------------------------------------------ specification
\* One caller at a time: the service as a sequence of calls.
Init ==
    /\ request = <<>>
    /\ request_data = <<>>
    /\ request_note = <<>>
    /\ request_stakeholder = <<>>
    /\ request_action = <<>>
    /\ sess = [c \in {"c1"} |-> Idle]

CreateRequest ==
    \E c \in DOMAIN sess, process_id \in ProcessIds, user_id \in Creators,
       note \in Notes, stakeholders \in StakeholderLists,
       entity_model \in EntityModels :
        create_request(c, process_id, user_id, "title", "dict()", note,
                       stakeholders, entity_model, 0)

AddData ==
    \E c \in DOMAIN sess, rq \in DOMAIN request, d \in DataInputs :
        /\ Len(request_data) < MaxAttach
        /\ add_request_data(c, rq, d[1], d[2], d[3])

AddNote ==
    \E c \in DOMAIN sess, rq \in DOMAIN request, n \in NoteInputs :
        /\ Len(request_note) < MaxAttach
        /\ add_request_note(c, rq, n[1], None, n[2])

AddStakeholder ==
    \E c \in DOMAIN sess, rq \in DOMAIN request, h \in StakeholderInputs :
        /\ Len(request_stakeholder) < MaxAttach
        /\ add_request_stakeholder(c, rq, h[1], h[2])

CommitLoad ==
    \E c \in DOMAIN sess, request_id \in 1..(MaxRequests + 1),
       user_id \in UserIds, action_id \in ActionIds :
        user_commit_action_load(c, request_id, user_id, action_id)

CommitUpdate == \E c \in DOMAIN sess : user_commit_action_update(c)

FindAllowedAction ==
    \E c \in DOMAIN sess, request_id \in 1..(MaxRequests + 1),
       user_id \in UserIds :
        find_request_allowed_action(c, request_id, user_id)

FindAllowedActionForSpecificUser ==
    \E c \in DOMAIN sess, request_id \in 1..(MaxRequests + 1),
       user_id \in UserIds, specific_user_id \in UserIds :
        find_request_allowed_action_for_specific_user(c, request_id, user_id,
                                                      specific_user_id)

FindActions ==
    \E c \in DOMAIN sess, request_id \in 1..(MaxRequests + 1),
       user_id \in UserIds :
        find_request_actions(c, request_id, user_id)

Returned == \E c \in DOMAIN sess : Return(c)

Next ==
    \/ CreateRequest
    \/ AddData
    \/ AddNote
    \/ AddStakeholder
    \/ CommitLoad
    \/ CommitUpdate
    \/ FindAllowedAction
    \/ FindAllowedActionForSpecificUser
    \/ FindActions
    \/ Returned

Spec == Init /\ [][Next]_vars

\* The transition engine: requests are created and moved along the graph.
NextEngine ==
    \/ CreateRequest
    \/ CommitLoad
    \/ CommitUpdate
    \/ Returned

SpecEngine == Init /\ [][NextEngine]_vars

\* The engine with its queries.
NextQuery ==
    \/ CreateRequest
    \/ CommitLoad
    \/ CommitUpdate
    \/ FindAllowedAction
    \/ FindAllowedActionForSpecificUser
    \/ FindActions
    \/ Returned

SpecQuery == Init /\ [][NextQuery]_vars

\* Creation and the attachment operations.
NextAttach ==
    \/ CreateRequest
    \/ AddData
    \/ AddNote
    \/ AddStakeholder
    \/ Returned

SpecAttach == Init /\ [][NextAttach]_vars

\* Two service workers committing on a request that create_request(1, 2,
\* "title", "dict()", "note", <<>>, "deal", 0) has made.
InitRace ==
    /\ request = <<[NewRequest(1, "title", 0, "deal", 1, 2)
                       EXCEPT !.current_state_id = Process[1].start]>>
    /\ request_data =
           AddRequestData(<<>>, 1, "dict()", "deal", DataType.json).tbl
    /\ request_note =
           AddRequestNote(<<>>, 1, "note", 2, NoteType.user_note).tbl
    /\ request_stakeholder = <<>>
    /\ request_action = <<>>
    /\ sess = [c \in {"c1", "c2"} |-> Idle]

NextRace ==
    \/ CommitLoad
    \/ CommitUpdate
    \/ Returned

SpecRace == InitRace /\ [][NextRace]_vars

\* One caller attaching to and committing on that request.
InitFrame ==
    /\ request = <<[NewRequest(1, "title", 0, "deal", 1, 2)
                       EXCEPT !.current_state_id = Process[1].start]>>
    /\ request_data =
           AddRequestData(<<>>, 1, "dict()", "deal", DataType.json).tbl
    /\ request_note =
           AddRequestNote(<<>>, 1, "note", 2, NoteType.user_note).tbl
    /\ request_stakeholder = <<>>
    /\ request_action = <<>>
    /\ sess = [c \in {"c1"} |-> Idle]

NextFrame ==
    \/ AddData
    \/ AddNote
    \/ AddStakeholder
    \/ CommitLoad
    \/ CommitUpdate
    \/ Returned

SpecFrame == InitFrame /\ [][NextFrame]_vars

\* Two service workers, each serving its own request: the tables after two
\* calls create_request(1, 2, "title", "dict()", "note", <<>>, "deal", 0).
TwoData ==
    AddRequestData(AddRequestData(<<>>, 1, "dict()", "deal", DataType.json).tbl,
                   2, "dict()", "deal", DataType.json).tbl

TwoNotes ==
    AddRequestNote(AddRequestNote(<<>>, 1, "note", 2, NoteType.user_note).tbl,
                   2, "note", 2, NoteType.user_note).tbl

InitTwo ==
    /\ request = [id \in {1, 2} |->
                     [NewRequest(id, "title", 0, "deal", 1, 2)
                         EXCEPT !.current_state_id = Process[1].start]]
    /\ request_data = TwoData
    /\ request_note = TwoNotes
    /\ request_stakeholder = <<>>
    /\ request_action = <<>>
    /\ sess = [c \in {"c1", "c2"} |-> Idle]

\* The request a worker serves.
RequestOf(c) == IF c = "c1" THEN 1 ELSE 2

\* Rows attached since InitTwo.
Attached ==
    Len(request_data) + Len(request_note) + Len(request_stakeholder)
        - Len(TwoData) - Len(TwoNotes)

CommitLoadOwn ==
    \E c \in DOMAIN sess, user_id \in User, action_id \in DOMAIN Action :
        user_commit_action_load(c, RequestOf(c), user_id, action_id)

AddDataOwn ==
    \E c \in DOMAIN sess, d \in DataInputs :
        /\ Attached < MaxAttach - 1
        /\ add_request_data(c, RequestOf(c), d[1], d[2], d[3])

AddNoteOwn ==
    \E c \in DOMAIN sess, n \in NoteInputs :
        /\ Attached < MaxAttach - 1
        /\ add_request_note(c, RequestOf(c), n[1], None, n[2])

AddStakeholderOwn ==
    \E c \in DOMAIN sess, h \in StakeholderInputs :
        /\ Attached < MaxAttach - 1
        /\ add_request_stakeholder(c, RequestOf(c), h[1], h[2])

NextTwo ==
    \/ CommitLoadOwn
    \/ CommitUpdate
    \/ AddDataOwn
    \/ AddNoteOwn
    \/ AddStakeholderOwn
    \/ Returned

SpecTwo == InitTwo /\ [][NextTwo]_vars


\* ------------------------------------------------------------------ claims
\* What the claims speak of, read off the graph and the tables.
Targets(action_id) == {Action[action_id].target[i] : i \in DOMAIN Action[action_id].target}

IsMember(user_id, action_id) ==
    \E g \in Targets(action_id) : <<g, user_id>> \in Membership

\* The routes that leave a state and are gated by an action.
GatingRoutes(state_id, action_id) ==
    IF state_id \notin DOMAIN State THEN {}
    ELSE {r \in DOMAIN Route :
            /\ \E i \in DOMAIN State[state_id].route : State[state_id].route[i] = r
            /\ \E j \in DOMAIN Route[r].action : Route[r].action[j] = action_id}

RowsOf(tbl, request_id) == SelectSeq(tbl, LAMBDA row : row.request_id = request_id)

\* Caller c has just made a call of handler op: it holds the call (a commit
\* that has loaded) or its response, with the arguments it gave.
Called(c, op) ==
    /\ sess[c].op = op
    /\ \/ sess[c].pc = "returned" /\ sess[c].outcome # "ok"
       \/ sess[c].pc = "returned" /\ op # "user_commit_action"
       \/ sess[c].pc = "loaded"

\* The request, user and action ids of a commit all resolve.
Resolves(call) ==
    /\ call.request_id \in DOMAIN request
    /\ call.user_id \in User
    /\ call.action_id \in DOMAIN Action

Committed(c) ==
    /\ sess[c].pc = "returned"
    /\ sess[c].op = "user_commit_action"
    /\ sess[c].outcome = "ok"

\* C1: a user_commit_action that succeeds appends exactly one RequestAction to
\* the request's history (the acting user, the committed action, a route that
\* leaves the state this call read and is gated by the action), sets the
\* persisted current state to that route's next state, and leaves every
\* RequestAction of the request, the earlier ones and the new one, 'done'.
C1_SuccessfulCommit ==
    [][\A c \in DOMAIN sess :
        (sess[c].pc = "loaded" /\ sess'[c].pc = "returned"
            /\ sess'[c].outcome = "ok")
        => LET rid == sess[c].request_id
               before == RowsOf(request_action, rid)
               after == RowsOf(request_action', rid)
               new == after[Len(after)]
           IN  /\ Len(after) = Len(before) + 1
               /\ \A i \in DOMAIN before :
                     after[i] = [before[i] EXCEPT !.status = "done"]
               /\ new.user_id = sess[c].user_id
               /\ new.action_id = sess[c].action_id
               /\ new.route_id \in GatingRoutes(sess[c].origin, sess[c].action_id)
               /\ request'[rid].current_state_id = Route[new.route_id].next_state_id
               /\ \A i \in DOMAIN after : after[i].status = "done"
               /\ Len(request_action') = Len(request_action) + 1
      ]_vars

\* C1 witness: a commit has returned on a request that already had a 'done'
\* entry; the history now has two and the request is where the new one leads.
C1_Witness ==
    \E c \in DOMAIN sess :
        /\ Committed(c)
        /\ LET h == RowsOf(request_action, sess[c].request_id)
           IN  /\ Len(h) = 2
               /\ h[2].user_id = sess[c].user_id
               /\ request[sess[c].request_id].current_state_id
                    = Route[h[2].route_id].next_state_id

\* C2: a commit of an action that gates a route leaving the current state, by
\* a user who is in none of the action's target groups, fails with Forbidden
\* and leaves the current state and the history as they were.
C2_UnauthorizedForbidden ==
    [][\A c \in DOMAIN sess :
        (/\ sess[c].pc = "idle"
         /\ Called(c, "user_commit_action")'
         /\ Resolves(sess'[c])
         /\ GatingRoutes(request[sess'[c].request_id].current_state_id,
                         sess'[c].action_id) # {}
         /\ ~IsMember(sess'[c].user_id, sess'[c].action_id))
        => /\ sess'[c].pc = "returned"
           /\ sess'[c].outcome = "Forbidden"
           /\ UNCHANGED <<request, request_action>>
      ]_vars

\* C2 witness: Forbidden was returned for a gated action and a user outside
\* its target groups.
C2_Witness ==
    \E c \in DOMAIN sess :
        /\ sess[c].pc = "returned"
        /\ sess[c].op = "user_commit_action"
        /\ sess[c].outcome = "Forbidden"
        /\ sess[c].request_id \in DOMAIN request
        /\ sess[c].user_id \in User
        /\ sess[c].action_id \in DOMAIN Action
        /\ GatingRoutes(request[sess[c].request_id].current_state_id,
                        sess[c].action_id) # {}
        /\ ~IsMember(sess[c].user_id, sess[c].action_id)

\* C3: a commit of an action that gates no route leaving the request's current
\* state fails with Forbidden or NotFound, whoever the user is, and leaves the
\* current state and the history as they were.
C3_UngatedForbidden ==
    [][\A c \in DOMAIN sess :
        (/\ sess[c].pc = "idle"
         /\ Called(c, "user_commit_action")'
         /\ Resolves(sess'[c])
         /\ GatingRoutes(request[sess'[c].request_id].current_state_id,
                         sess'[c].action_id) = {})
        => /\ sess'[c].pc = "returned"
           /\ sess'[c].outcome \in {"Forbidden", "NotFound"}
           /\ UNCHANGED <<request, request_action>>
      ]_vars

\* Two commits overlap when both read the same current state and the same
\* history of one request and both went on to persist.
Overlapped(c, d) ==
    /\ c # d
    /\ sess[c].pc = "returned" /\ sess[d].pc = "returned"
    /\ sess[c].op = "user_commit_action" /\ sess[d].op = "user_commit_action"
    /\ sess[c].outcome \in {"ok", "Conflict"}
    /\ sess[d].outcome \in {"ok", "Conflict"}
    /\ sess[c].request_id = sess[d].request_id
    /\ sess[c].origin = sess[d].origin
    /\ sess[c].seen = sess[d].seen

\* C4: of two overlapping commits on one request exactly one succeeds and the
\* other fails with Conflict.
C4_OneWinner ==
    \A c, d \in DOMAIN sess :
        (Overlapped(c, d) /\ sess[c].outcome = "ok") => sess[d].outcome = "Conflict"

\* C5: the final persist of a commit succeeds only while the persisted current
\* state is still the one the call read, and every change of a request's
\* persisted current state from s to s' follows a route that leaves s and
\* leads to s'.
C5_ConditionalPersist ==
    [][/\ \A c \in DOMAIN sess :
            (sess[c].pc = "loaded" /\ sess'[c].pc = "returned"
                /\ sess'[c].outcome = "ok")
            => request[sess[c].request_id].current_state_id = sess[c].origin
       /\ \A rid \in DOMAIN request :
            request'[rid].current_state_id # request[rid].current_state_id
            => \E r \in DOMAIN Route :
                  /\ \E i \in DOMAIN get_route(request[rid].current_state_id) :
                        get_route(request[rid].current_state_id)[i] = r
                  /\ Route[r].next_state_id = request'[rid].current_state_id
      ]_vars

\* C6: the current state of every existing request is a state of the
\* request's own process.
C6_StateInProcess ==
    \A rid \in DOMAIN request :
        /\ request[rid].current_state_id \in DOMAIN State
        /\ State[request[rid].current_state_id].process_id = request[rid].process_id

FullyInitialized(rid) ==
    /\ request[rid].current_state_id # None
    /\ RowsOf(request_data, rid) # <<>>
    /\ RowsOf(request_note, rid) # <<>>

\* C7: when create_request has failed, storage holds no Request that lacks its
\* current state, its initial data or its initial note.
C7_CreateAllOrNothing ==
    \A c \in DOMAIN sess :
        (/\ sess[c].pc = "returned"
         /\ sess[c].op = "create_request"
         /\ sess[c].outcome # "ok")
        => \A rid \in DOMAIN request : FullyInitialized(rid)

\* C8: a create_request that succeeds returns and persists a Request at the
\* start state of its process, of the given process and creator, with at least
\* one RequestData, exactly one RequestNote, written by the creator, one
\* RequestStakeholder per stakeholder id given, and no RequestAction.
C8_CreatedInitialized ==
    [][\A c \in DOMAIN sess :
        (sess[c].pc = "idle" /\ sess'[c].op = "create_request"
            /\ sess'[c].outcome = "ok")
        =>
        \A process_id \in ProcessIds, user_id \in Creators, note \in Notes,
           stakeholders \in StakeholderLists, entity_model \in EntityModels :
        create_request(c, process_id, user_id, "title", "dict()", note,
                       stakeholders, entity_model, 0)
        => LET id == sess'[c].request_id
               notes == RowsOf(request_note', id)
               holders == RowsOf(request_stakeholder', id)
           IN  /\ DOMAIN request' = DOMAIN request \cup {id}
               /\ id \notin DOMAIN request
               /\ request'[id].id = id
               /\ request'[id].current_state_id = Process[process_id].start
               /\ request'[id].current_state_id # None
               /\ request'[id].process_id = process_id
               /\ request'[id].user_id = user_id
               /\ Len(RowsOf(request_data', id)) >= 1
               /\ Len(notes) = 1
               /\ notes[1].user_id = user_id
               /\ [i \in DOMAIN holders |-> holders[i].stakeholder_id] = stakeholders
               /\ RowsOf(request_action', id) = <<>>
      ]_vars

\* C8 witness: create_request has returned a request at its start state with
\* its data, its note and two stakeholders.
C8_Witness ==
    \E c \in DOMAIN sess :
        /\ sess[c].pc = "returned"
        /\ sess[c].op = "create_request"
        /\ sess[c].outcome = "ok"
        /\ request[sess[c].request_id].current_state_id = Process[1].start
        /\ Len(RowsOf(request_stakeholder, sess[c].request_id)) = 2
        /\ Len(RowsOf(request_note, sess[c].request_id)) = 1

NothingCreated ==
    UNCHANGED <<request, request_data, request_note, request_stakeholder>>

\* C9: create_request with a process id or a creator id that resolves to
\* nothing, or with a process that has no start state, fails with NotFound and
\* creates no Request, RequestData, RequestNote or RequestStakeholder.
C9_CreateNotFound ==
    [][\A c \in DOMAIN sess :
        (/\ sess[c].pc = "idle"
         /\ Called(c, "create_request")'
         /\ \/ sess'[c].process_id \notin DOMAIN Process
            \/ sess'[c].user_id \notin User
            \/ Process[sess'[c].process_id].start = None)
        => /\ sess'[c].outcome = "NotFound"
           /\ NothingCreated
      ]_vars

\* C9 witness: NotFound was returned to a creator who does not exist, with a
\* process that does and has a start state.
C9_Witness ==
    \E c \in DOMAIN sess :
        /\ sess[c].pc = "returned"
        /\ sess[c].op = "create_request"
        /\ sess[c].outcome = "NotFound"
        /\ sess[c].user_id \notin User
        /\ sess[c].process_id \in DOMAIN Process
        /\ Process[sess[c].process_id].start # None

\* C10: user_commit_action with a request id, a user id or an action id that
\* resolves to nothing fails with NotFound; no RequestAction is created, no
\* status changes and the current state stays.
C10_CommitNotFound ==
    [][\A c \in DOMAIN sess :
        (/\ sess[c].pc = "idle"
         /\ Called(c, "user_commit_action")'
         /\ ~Resolves(sess'[c]))
        => /\ sess'[c].pc = "returned"
           /\ sess'[c].outcome = "NotFound"
           /\ UNCHANGED <<request, request_action>>
      ]_vars

\* C10 witness: NotFound was returned for an action id that does not resolve,
\* on a request that has a history and by a user who exists.
C10_Witness ==
    \E c \in DOMAIN sess :
        /\ sess[c].pc = "returned"
        /\ sess[c].op = "user_commit_action"
        /\ sess[c].outcome = "NotFound"
        /\ sess[c].request_id \in DOMAIN request
        /\ sess[c].user_id \in User
        /\ sess[c].action_id \notin DOMAIN Action
        /\ RowsOf(request_action, sess[c].request_id) # <<>>

\* The actions gated by the routes that leave a state, route after route.
RECURSIVE Flatten(_)
Flatten(lists) ==
    IF lists = <<>> THEN <<>> ELSE Head(lists) \o Flatten(Tail(lists))

GatedActions(state_id) ==
    Flatten([i \in DOMAIN State[state_id].route |->
                Route[State[state_id].route[i]].action])

\* Caller c has just been answered a query op on a request that exists and
\* has a current state.
Asked(c, op) ==
    /\ sess[c].pc = "idle"
    /\ sess'[c].pc = "returned"
    /\ sess'[c].op = op
    /\ sess'[c].request_id \in DOMAIN request
    /\ request[sess'[c].request_id].current_state_id # None

\* C11: find_request_allowed_action returns the actions gated by the routes
\* that leave the request's current state, concatenated in route order with
\* the duplicates kept, whoever the viewer is and whatever groups they are in.
C11_AllowedActionsUnfiltered ==
    [][\A c \in DOMAIN sess :
        Asked(c, "find_request_allowed_action")
        => /\ sess'[c].outcome = "ok"
           /\ sess'[c].result
                = GatedActions(request[sess'[c].request_id].current_state_id)
           /\ UNCHANGED tables
      ]_vars

\* C11 witness: a viewer id that belongs to no user and no group was answered
\* the four gated actions of state 1, action 1 twice.
C11_Witness ==
    \E c \in DOMAIN sess :
        /\ sess[c].pc = "returned"
        /\ sess[c].op = "find_request_allowed_action"
        /\ sess[c].outcome = "ok"
        /\ sess[c].user_id \notin User
        /\ sess[c].result = <<1, 3, 2, 1>>

\* C12: find_request_allowed_action_for_specific_user returns the entries of
\* find_request_allowed_action, in their order, whose action targets a group
\* the specific user is in; the viewer's groups play no part, and a specific
\* user in none of the target groups is answered the empty list.
C12_AllowedActionsForUser ==
    [][\A c \in DOMAIN sess :
        (/\ Asked(c, "find_request_allowed_action_for_specific_user")
         /\ sess'[c].specific_user_id \in User)
        => /\ sess'[c].outcome = "ok"
           /\ sess'[c].result
                = SelectSeq(GatedActions(request[sess'[c].request_id].current_state_id),
                            LAMBDA a : IsMember(sess'[c].specific_user_id, a))
           /\ UNCHANGED tables
      ]_vars

\* C12 witness: the answer about a specific user who is in no target group
\* of the one gated action is empty, though the viewer is in one.
C12_Witness ==
    \E c \in DOMAIN sess :
        /\ sess[c].pc = "returned"
        /\ sess[c].op = "find_request_allowed_action_for_specific_user"
        /\ sess[c].outcome = "ok"
        /\ sess[c].result = <<>>
        /\ LET gated == GatedActions(request[sess[c].request_id].current_state_id)
           IN  /\ gated # <<>>
               /\ \A i \in DOMAIN gated :
                     /\ ~IsMember(sess[c].specific_user_id, gated[i])
                     /\ IsMember(sess[c].user_id, gated[i])

\* The persisted row of a RequestAction entity.
RowOf(entity) ==
    [id |-> entity.id, request_id |-> entity.request_id,
     action_id |-> entity.action_id, user_id |-> entity.user_id,
     route_id |-> entity.route_id, status |-> entity.status]

\* C13: on a request that was created, find_request_actions returns one
\* RequestAction per commit that succeeded, in the order the commits were
\* made and all 'done', and the current state is where the route of the last
\* one leads (the start state while there is none): a commit that succeeds
\* adds its entry behind the others, a commit that fails adds none.
C13_HistoryInCommitOrder ==
    [][\A c \in DOMAIN sess :
        LET rid == sess'[c].request_id
            rows == RowsOf(request_action, rid)
            after == RowsOf(request_action', rid)
            result == sess'[c].result
        IN  /\ (/\ sess[c].pc = "idle"
                /\ sess'[c].op = "find_request_actions"
                /\ rid \in DOMAIN request)
               => /\ sess'[c].outcome = "ok"
                  /\ Len(result) = Len(rows)
                  /\ \A i \in DOMAIN rows :
                        /\ RowOf(result[i]) = rows[i]
                        /\ result[i].status = "done"
                        /\ i > 1 => result[i - 1].id < result[i].id
                  /\ request[rid].current_state_id # None
                     => request[rid].current_state_id
                          = IF rows = <<>>
                            THEN Process[request[rid].process_id].start
                            ELSE Route[rows[Len(rows)].route_id].next_state_id
                  /\ UNCHANGED tables
            /\ (sess[c].pc = "loaded" /\ sess'[c].pc = "returned"
                    /\ sess'[c].outcome = "ok")
               => /\ Len(after) = Len(rows) + 1
                  /\ \A i \in DOMAIN rows : after[i].id = rows[i].id
                  /\ after[Len(after)].user_id = sess'[c].user_id
                  /\ after[Len(after)].action_id = sess'[c].action_id
            /\ (/\ sess[c].pc = "idle"
                /\ sess'[c].op = "user_commit_action"
                /\ sess'[c].pc = "returned")
               => /\ sess'[c].outcome # "ok"
                  /\ UNCHANGED request_action
      ]_vars

\* C13 witness: after two commits find_request_actions has returned two
\* 'done' entries, the earlier first, and the request is where the route of
\* the second leads.
C13_Witness ==
    \E c \in DOMAIN sess :
        /\ sess[c].pc = "returned"
        /\ sess[c].op = "find_request_actions"
        /\ sess[c].outcome = "ok"
        /\ Len(sess[c].result) = 2
        /\ sess[c].result[1].id < sess[c].result[2].id
        /\ sess[c].result[2].status = "done"
        /\ request[sess[c].request_id].current_state_id
             = Route[sess[c].result[2].route_id].next_state_id

AttachOps == {"add_request_data", "add_request_note", "add_request_stakeholder"}

\* C14: add_request_data, add_request_note and add_request_stakeholder leave
\* the request's current state, its status and its RequestAction history as
\* they were, whether they succeed or raise, and return the Request given.
C14_AttachLeavesState ==
    [][\A c \in DOMAIN sess :
        (sess[c].pc = "idle" /\ sess'[c].op \in AttachOps)
        => /\ UNCHANGED <<request, request_action>>
           /\ sess'[c].outcome \in {"ok", "InvalidInput"}
           /\ \A rq \in DOMAIN request :
                 /\ \A d \in DataInputs :
                       add_request_data(c, rq, d[1], d[2], d[3])
                       => sess'[c].request_id = rq
                 /\ \A n \in NoteInputs :
                       add_request_note(c, rq, n[1], None, n[2])
                       => sess'[c].request_id = rq
                 /\ \A h \in StakeholderInputs :
                       add_request_stakeholder(c, rq, h[1], h[2])
                       => sess'[c].request_id = rq
      ]_vars

\* C14 witness: an attachment call has raised on a request that has moved
\* off its start state, after another one had added a RequestData.
C14_Witness ==
    \E c \in DOMAIN sess :
        /\ sess[c].pc = "returned"
        /\ sess[c].op \in AttachOps
        /\ sess[c].outcome = "InvalidInput"
        /\ RowsOf(request_action, sess[c].request_id) # <<>>
        /\ request[sess[c].request_id].current_state_id
             # Process[request[sess[c].request_id].process_id].start
        /\ Len(RowsOf(request_data, sess[c].request_id)) = 2

Attachments == <<request_data, request_note, request_stakeholder>>

\* C15: an attachment call whose entity fails validate() raises InvalidInput
\* and creates no row: the data, notes and stakeholders are as before.
C15_MalformedNotPersisted ==
    [][\A c \in DOMAIN sess :
        (sess[c].pc = "idle" /\ sess'[c].op \in AttachOps)
        => \A rq \in DOMAIN request :
             /\ \A d \in DataInputs :
                   (/\ add_request_data(c, rq, d[1], d[2], d[3])
                    /\ ~validate_request_data(
                          [name |-> d[2], data_type |-> d[3],
                           value |-> IF d[3] = DataType.json
                                     THEN json_dumps(d[1]) ELSE d[1]]))
                   => sess'[c].outcome = "InvalidInput" /\ UNCHANGED Attachments
             /\ \A n \in NoteInputs :
                   (/\ add_request_note(c, rq, n[1], None, n[2])
                    /\ ~validate_request_note([note |-> n[1], note_type |-> n[2]]))
                   => sess'[c].outcome = "InvalidInput" /\ UNCHANGED Attachments
             /\ \A h \in StakeholderInputs :
                   (/\ add_request_stakeholder(c, rq, h[1], h[2])
                    /\ ~validate_request_stakeholder(
                          [stakeholder_id |-> h[1], stakeholder_type |-> h[2]]))
                   => sess'[c].outcome = "InvalidInput" /\ UNCHANGED Attachments
      ]_vars

\* C15 witness: an attachment call has raised InvalidInput on a request that
\* holds a RequestData, a RequestNote and a RequestStakeholder.
C15_Witness ==
    \E c \in DOMAIN sess :
        /\ sess[c].pc = "returned"
        /\ sess[c].op \in AttachOps
        /\ sess[c].outcome = "InvalidInput"
        /\ RowsOf(request_data, sess[c].request_id) # <<>>
        /\ RowsOf(request_note, sess[c].request_id) # <<>>
        /\ RowsOf(request_stakeholder, sess[c].request_id) # <<>>

\* C16: the initial RequestData of a request created with an empty
\* entity_model is named 'content'; with a non-empty entity_model it is named
\* after the entity_model.
C16_InitialDataName ==
    [][\A c \in DOMAIN sess :
        (/\ sess[c].pc = "idle"
         /\ sess'[c].op = "create_request"
         /\ Len(request') = Len(request) + 1)
        => LET id == Len(request')
               data == RowsOf(request_data', id)
           IN  /\ data # <<>>
               /\ data[1].name = IF request'[id].entity_model = ""
                                 THEN "content"
                                 ELSE request'[id].entity_model
      ]_vars

\* All that is persisted of one request.
View(rid) ==
    <<request[rid], RowsOf(request_action, rid), RowsOf(request_data, rid),
      RowsOf(request_note, rid), RowsOf(request_stakeholder, rid)>>

\* The rows attached to one request.
AttachedTo(rid) ==
    Len(RowsOf(request_data, rid)) + Len(RowsOf(request_note, rid))
        + Len(RowsOf(request_stakeholder, rid))

\* The request the step of caller c works on: that of the call it makes, or
\* of the call it completes.
Target(c) ==
    IF sess[c].pc = "idle" THEN sess'[c].request_id ELSE sess[c].request_id

\* C17: a step of user_commit_action or of an attachment call on one request
\* leaves everything persisted of every other request as it was, and what
\* the call does is decided by its own request alone: a commit reads the
\* current state and the history of its request and succeeds exactly when
\* they allow it, an attachment call succeeds exactly when it adds its row
\* to its request.
C17_OtherRequestUntouched ==
    [][\A c \in DOMAIN sess :
        sess'[c] # sess[c]
        => \A rid \in DOMAIN request :
           LET call == sess'[c]
           IN  IF rid # Target(c) THEN View(rid)' = View(rid) ELSE
               /\ (sess[c].pc = "idle" /\ call.op = "user_commit_action")
                  => /\ call.pc = "loaded"
                        <=> /\ GatingRoutes(request[rid].current_state_id,
                                            call.action_id) # {}
                            /\ IsMember(call.user_id, call.action_id)
                     /\ call.pc = "loaded"
                        => /\ call.origin = request[rid].current_state_id
                           /\ call.seen = Len(RowsOf(request_action, rid))
                           /\ Len(call.request_action) = call.seen + 1
                           /\ \A i \in DOMAIN call.request_action :
                                 call.request_action[i].request_id = rid
                     /\ call.pc = "returned" => call.outcome = "Forbidden"
               /\ (sess[c].pc = "idle" /\ call.op \in AttachOps)
                  => /\ call.outcome = "ok"
                        <=> AttachedTo(rid)' = AttachedTo(rid) + 1
                     /\ call.outcome # "ok" => View(rid)' = View(rid)
      ]_vars

\* C17 witness: one worker has committed on its request while the other
\* holds a commit on the other request that it had loaded before and has not
\* persisted, and a row has been attached to one of the two.
C17_Witness ==
    \E c, d \in DOMAIN sess :
        /\ Committed(c)
        /\ sess[d].pc = "loaded"
        /\ sess[d].request_id # sess[c].request_id
        /\ sess[d].origin = request[sess[d].request_id].current_state_id
        /\ request[sess[c].request_id].current_state_id
             # request[sess[d].request_id].current_state_id
        /\ Attached = 1

\* C18: when the request, the user and the action resolve, user_commit_action
\* succeeds exactly when the action gates a route that leaves the request's
\* current state and the user is in a target group of the action; an action
\* that targets no group is committed by no user.
C18_SucceedsIffGatedAndMember ==
    [][\A c \in DOMAIN sess :
        /\ (/\ sess[c].pc = "idle"
            /\ Called(c, "user_commit_action")'
            /\ Resolves(sess'[c]))
           => /\ sess'[c].pc = "loaded"
                 <=> /\ GatingRoutes(request[sess'[c].request_id].current_state_id,
                                     sess'[c].action_id) # {}
                     /\ IsMember(sess'[c].user_id, sess'[c].action_id)
              /\ Targets(sess'[c].action_id) = {} => sess'[c].pc = "returned"
        /\ sess[c].pc = "loaded"
           => sess'[c].pc = "returned" /\ sess'[c].outcome = "ok"
        /\ Called(c, "user_commit_action")' /\ sess'[c].pc = "returned"
           => sess'[c].outcome # "ok" /\ UNCHANGED tables
      ]_vars

\* C18 witness: after two commits that succeeded, the commit of an action
\* that gates a route of the current state but targets no group was refused.
C18_Witness ==
    \E c \in DOMAIN sess :
        /\ sess[c].pc = "returned"
        /\ sess[c].op = "user_commit_action"
        /\ sess[c].outcome = "Forbidden"
        /\ sess[c].user_id \in User
        /\ sess[c].action_id \in DOMAIN Action
        /\ Targets(sess[c].action_id) = {}
        /\ sess[c].request_id \in DOMAIN request
        /\ GatingRoutes(request[sess[c].request_id].current_state_id,
                        sess[c].action_id) # {}
        /\ Len(RowsOf(request_action, sess[c].request_id)) = 2

\* The last of the routes of a state, in the order the state lists them, that
\* the action gates.
LastGatingRoute(state_id, action_id) ==
    LET routes == State[state_id].route
        gating == GatingRoutes(state_id, action_id)
        last == CHOOSE i \in DOMAIN routes :
                    /\ routes[i] \in gating
                    /\ \A j \in DOMAIN routes : routes[j] \in gating => j <= i
    IN  routes[last]

\* C19: when several routes that leave the current state are gated by the
\* committed action, a commit that succeeds creates one RequestAction, whose
\* route is the last of them in the order of the state's routes, and moves
\* the request to the next state of that route.
C19_LastRouteWins ==
    [][\A c \in DOMAIN sess :
        (/\ sess[c].pc = "loaded"
         /\ sess'[c].pc = "returned"
         /\ sess'[c].outcome = "ok"
         /\ Cardinality(GatingRoutes(sess[c].origin, sess[c].action_id)) > 1)
        => LET rid == sess[c].request_id
               after == RowsOf(request_action', rid)
               route == LastGatingRoute(sess[c].origin, sess[c].action_id)
           IN  /\ Len(request_action') = Len(request_action) + 1
               /\ Len(after) = Len(RowsOf(request_action, rid)) + 1
               /\ after[Len(after)].route_id = route
               /\ after[Len(after)].action_id = sess[c].action_id
               /\ request'[rid].current_state_id = Route[route].next_state_id
      ]_vars

\* C19 witness: action 1, which gates routes 1 and 3 of state 1, was
\* committed there; the one new RequestAction has route 3 and the request is
\* at state 3, where route 3 leads.
C19_Witness ==
    \E c \in DOMAIN sess :
        /\ Committed(c)
        /\ sess[c].origin = 1
        /\ sess[c].action_id = 1
        /\ GatingRoutes(1, 1) = {1, 3}
        /\ LET h == RowsOf(request_action, sess[c].request_id)
           IN  /\ Len(h) = 1
               /\ h[1].route_id = 3
        /\ request[sess[c].request_id].current_state_id = 3

WouldCommit(request_id, user_id, action_id) ==
    /\ find_one_request(request_id).error = ""
    /\ find_by_id(user_id).error = ""
    /\ action_find_one(action_id).error = ""
    /\ LET made == create_request_action(request_id,
                                         request[request_id].current_state_id,
                                         LoadHistory(request_id),
                                         user_id, action_id)
       IN  /\ made.error = ""
           /\ LoopVariable(MarkDone(made.request_action)).route_to_next_state
                # None

\* find_request_allowed_action_for_specific_user(request_id, viewer, user_id),
\* called in this state, returns a list that holds the action.
Offered(request_id, viewer, user_id, action_id) ==
    LET found == AllowedAction(request_id, viewer)
    IN  /\ found.error = ""
        /\ find_by_id(user_id).error = ""
        /\ \E i \in DOMAIN KeepAllowed(found.actions, viewer, user_id) :
              KeepAllowed(found.actions, viewer, user_id)[i] = action_id

\* C21: in every state, for every request, user and action, the action is in
\* the list find_request_allowed_action_for_specific_user returns for the
\* user exactly when user_commit_action by that user with that action would
\* succeed in that state: every answer of the query, to any viewer and about
\* any user, agrees with what the commit would do there, and every commit
\* does what the query would answer there.
C21_QueryAgreesWithCommit ==
    [][\A c \in DOMAIN sess :
        /\ (/\ sess[c].pc = "idle"
            /\ sess'[c].op = "find_request_allowed_action_for_specific_user")
           => \A action_id \in ActionIds :
                 (/\ sess'[c].outcome = "ok"
                  /\ \E i \in DOMAIN sess'[c].result :
                        sess'[c].result[i] = action_id)
                 <=> WouldCommit(sess'[c].request_id,
                                 sess'[c].specific_user_id, action_id)
        /\ (sess[c].pc = "idle" /\ sess'[c].op = "user_commit_action")
           => \A viewer \in UserIds :
                 sess'[c].pc = "loaded"
                 <=> Offered(sess'[c].request_id, viewer, sess'[c].user_id,
                             sess'[c].action_id)
      ]_vars

\* C21 witness: on a request that has moved on, the query about a user has
\* returned some of the gated actions and left others out, and the commit of
\* the first action it returned would succeed.
C21_Witness ==
    \E c \in DOMAIN sess :
        /\ sess[c].pc = "returned"
        /\ sess[c].op = "find_request_allowed_action_for_specific_user"
        /\ sess[c].outcome = "ok"
        /\ sess[c].result # <<>>
        /\ Len(sess[c].result)
             < Len(GatedActions(request[sess[c].request_id].current_state_id))
        /\ RowsOf(request_action, sess[c].request_id) # <<>>
        /\ WouldCommit(sess[c].request_id, sess[c].specific_user_id,
                       sess[c].result[1])

\* A RequestAction row on its own: it has a route, its action gates that
\* route, and its user is in a target group of its action.
WellFormed(row) ==
    /\ row.route_id # None
    /\ row.route_id \in DOMAIN Route
    /\ \E j \in DOMAIN Route[row.route_id].action :
          Route[row.route_id].action[j] = row.action_id
    /\ row.action_id \in DOMAIN Action
    /\ IsMember(row.user_id, row.action_id)

\* The routes that leave a state.
Outgoing(state_id) ==
    IF state_id \notin DOMAIN State THEN {}
    ELSE {State[state_id].route[i] : i \in DOMAIN State[state_id].route}

====
